---- MODULE Spec2Model ----
(***************************************************************************)
(* State-machine model of the three CEDA archive scripts                   *)
(*   ceda-query_ccmi1_xml-urlib_tokens.py   (script "ccmi1")               *)
(*   ceda-query_ccmi2022_xml-urllib.py      (script "ccmi2022")            *)
(*   python_ceda-ftp.py                     (script "ftp")                 *)
(* One behaviour is one run of one script against one remote archive.      *)
(* A step is one listing call (get_elements / cwd+mlsd) or one file        *)
(* transfer, together with all the loop bookkeeping the code performs up   *)
(* to the next such call.                                                  *)
(***************************************************************************)
EXTENDS Integers, Sequences, FiniteSets, TLC

(***************************************************************************)
(* Python values.  A nested Python list that mixes strings and lists is    *)
(* represented by records of one shape: PS(x) is the string x, PL(s) the   *)
(* list with elements s, PyErr the outcome of an IndexError.               *)
(***************************************************************************)
PS(x) == [t |-> "s", s |-> x, l |-> <<>>]
PL(x) == [t |-> "l", s |-> "", l |-> x]
PyErr == [t |-> "e", s |-> "IndexError", l |-> <<>>]

\* list.insert(pos, x) for pos >= 0: past the end it appends
SeqInsert(s, pos, x) ==
  IF pos >= Len(s) THEN Append(s, x)
  ELSE SubSeq(s, 1, pos) \o <<x>> \o SubSeq(s, pos + 1, Len(s))

\* v[p[1]][p[2]]... with 0-based indexes; PyErr when an index is out of range
RECURSIVE PyGet(_, _)
PyGet(v, p) ==
  IF p = <<>> THEN v
  ELSE IF v.t = "l" /\ Head(p) >= 0 /\ Head(p) < Len(v.l)
       THEN PyGet(v.l[Head(p) + 1], Tail(p))
       ELSE PyErr

\* v[p[1]][p[2]]....insert(pos, x)
RECURSIVE PyInsert(_, _, _, _)
PyInsert(v, p, pos, x) ==
  IF v.t # "l" THEN PyErr
  ELSE IF p = <<>> THEN PL(SeqInsert(v.l, pos, x))
  ELSE IF Head(p) >= 0 /\ Head(p) < Len(v.l)
       THEN LET sub == PyInsert(v.l[Head(p) + 1], Tail(p), pos, x)
            IN  IF sub = PyErr THEN PyErr
                ELSE PL([v.l EXCEPT ![Head(p) + 1] = sub])
       ELSE PyErr

\* the list of strings [a, b, ...] as a Python list
StrList(names) == PL([i \in 1..Len(names) |-> PS(names[i])])

\* numpy.zeros(n, dtype=int)
Zeros(n) == [i \in 1..n |-> 0]

RECURSIVE SumSeq(_)
SumSeq(s) == IF s = <<>> THEN 0 ELSE Head(s) + SumSeq(Tail(s))

Front(s) == SubSeq(s, 1, Len(s) - 1)
Last(s) == s[Len(s)]
SeqToSet(s) == {s[i] : i \in 1..Len(s)}
InSeq(x, s) == \E i \in 1..Len(s) : s[i] = x

\* ord(c) of the characters of numerals and version names
CharCode ==
  [c \in {"0", "1", "2", "3", "4", "5", "6", "7", "8", "9", "a", "e", "l", "s", "t", "v"} |->
     CASE c = "0" -> 48 [] c = "1" -> 49 [] c = "2" -> 50 [] c = "3" -> 51
       [] c = "4" -> 52 [] c = "5" -> 53 [] c = "6" -> 54 [] c = "7" -> 55
       [] c = "8" -> 56 [] c = "9" -> 57 [] c = "a" -> 97 [] c = "e" -> 101
       [] c = "l" -> 108 [] c = "s" -> 115 [] c = "t" -> 116 [] OTHER -> 118]

DigitVal(c) == CharCode[c] - 48

\* int(cs) for a sequence of characters: -1 stands for a ValueError
RECURSIVE ParseInt(_, _)
ParseInt(cs, acc) ==
  IF cs = <<>> THEN acc
  ELSE IF DigitVal(Head(cs)) \notin 0..9 THEN -1
  ELSE ParseInt(Tail(cs), 10 * acc + DigitVal(Head(cs)))

DigitChar(d) == CHOOSE c \in DOMAIN CharCode : CharCode[c] = 48 + d

\* str(n) for n >= 0
RECURSIVE StrOfInt(_)
StrOfInt(n) ==
  IF n < 10 THEN <<DigitChar(n)>> ELSE Append(StrOfInt(n \div 10), DigitChar(n % 10))


RECURSIVE SelectNames(_, _)
\* the names of the entries of a listing that are directories (wantDir) or files
SelectNames(ents, wantDir) ==
  IF ents = <<>> THEN <<>>
  ELSE IF Head(ents).dir = wantDir
       THEN <<Head(ents).name>> \o SelectNames(Tail(ents), wantDir)
       ELSE SelectNames(Tail(ents), wantDir)

(***************************************************************************)
(* The remote archive.  A directory is named by its path, the sequence of  *)
(* directory names below the archive root.  The archive of a run is a      *)
(* base tree in which the listing of at most one directory (pertPath) is   *)
(* replaced by pertList.                                                   *)
(*   ccmi1    : inst/model/expt/freq/realm/freqname/ens/version/var/file   *)
(*   ccmi2022 : inst/model/expt/sim/table/var/grid/version/file  (and ftp) *)
(***************************************************************************)
VARIABLES script, pertPath, pertList

D(n) == [name |-> n, dir |-> TRUE]
F(n) == [name |-> n, dir |-> FALSE]

NoPath == <<"-">>

Scripts == {"ccmi1", "ccmi2022", "ftp"}

\* the greatest number of files in a version (ccmi2022, ftp) or variable
\* (ccmi1) directory of the base archive
MaxFiles == 2

FileNames == <<"a.nc", "b.nc", "c.nc", "d.nc">>

FileEntries == [i \in 1..MaxFiles |-> F(FileNames[i])]

\* two files that are not named as the archive names its files: one whose
\* fourth field is another experiment, one without underscores
MisfiledName == "h2o_Amon_ModelX_refC2_r1_gn_a.nc"
ShortName == "notes.txt"

\* name.split('_') for these two
SplitName ==
  (MisfiledName :> <<"h2o", "Amon", "ModelX", "refC2", "r1", "gn", "a.nc">>)
  @@ (ShortName :> <<"notes.txt">>)

BaseModels(path) ==
  CASE path[1] = "InstA" -> <<D("ModelA")>>
    [] path[1] = "InstB" -> <<D("ModelB")>>
    [] OTHER -> <<>>

BaseExpts(path) ==
  CASE path[2] = "ModelA" -> <<D("refC1"), D("refC2")>>
    [] path[2] = "ModelB" -> <<D("refC1")>>
    [] path[2] = "ModelA2" -> <<D("refC1")>>
    [] OTHER -> <<>>

\* the listing of directory path in the base CCMI-1 archive
BaseLs1(path) ==
  CASE Len(path) = 0 -> <<D("InstA"), D("InstB"), F("README")>>
    [] Len(path) = 1 -> BaseModels(path)
    [] Len(path) = 2 -> BaseExpts(path)
    [] Len(path) = 3 -> <<D("mon")>>
    [] Len(path) = 4 -> <<D("atmos")>>
    [] Len(path) = 5 -> <<D("monthly")>>
    [] Len(path) = 6 -> <<D("r1i1p1")>>
    [] Len(path) = 7 -> <<D("v1")>>
    [] Len(path) = 8 -> <<D("o3"), D("zmcly")>>
    [] Len(path) = 9 -> FileEntries
    [] OTHER -> <<>>

BaseVars22(path) ==
  CASE path[5] = "Amon" -> <<D("toz"), D("h2o")>>
    [] path[5] = "AmonZ" -> <<D("h2o")>>
    [] OTHER -> <<>>

\* the listing of directory path in the base CCMI-2022 archive
BaseLs22(path) ==
  CASE Len(path) = 0 -> <<D("InstA"), D("InstB"), F("README")>>
    [] Len(path) = 1 -> BaseModels(path)
    [] Len(path) = 2 -> BaseExpts(path)
    [] Len(path) = 3 -> <<D("r1")>>
    [] Len(path) = 4 -> <<D("Amon"), D("AmonZ")>>
    [] Len(path) = 5 -> BaseVars22(path)
    [] Len(path) = 6 -> <<D("gn")>>
    [] Len(path) = 7 -> <<D("v1")>>
    [] Len(path) = 8 -> FileEntries
    [] OTHER -> <<>>

\* depth of the file level: paths of this length name files
FileDepth(sc) == IF sc = "ccmi1" THEN 10 ELSE 9

BaseLs(sc, path) == IF sc = "ccmi1" THEN BaseLs1(path) ELSE BaseLs22(path)

BaseChildren(sc, q) ==
  {Append(q, BaseLs(sc, q)[i].name) :
     i \in {j \in 1..Len(BaseLs(sc, q)) : BaseLs(sc, q)[j].dir}}

\* the directory paths of the base archive of depth at most d
RECURSIVE BaseDirs(_, _)
BaseDirs(sc, d) ==
  IF d = 0 THEN {<<>>}
  ELSE LET prev == BaseDirs(sc, d - 1)
       IN  prev \cup UNION {BaseChildren(sc, q) : q \in {r \in prev : Len(r) = d - 1}}

\* the listings that may replace the listing of a directory of depth d:
\* an empty directory, an institution with two models, and (in the
\* directories of depth 7, which hold the version directories in both
\* archives) version directories in either order and a version directory
\* whose name is not "v" and digits, alone or beside v1, and version
\* numbers written with a leading zero; in the file
\* directories of the XML archives, a file that is not named as the
\* archive names its files
AltLs(sc, d) ==
  CASE d = 1 -> {<<>>, <<D("ModelA"), D("ModelA2")>>}
    [] d = 7 ->
         {<<>>, <<D("v2"), D("v10")>>, <<D("v10"), D("v2")>>,
          <<D("latest")>>, <<D("v1"), D("latest")>>, <<D("v01"), D("v02")>>}
    [] d = FileDepth(sc) - 1 /\ sc # "ftp" ->
         {<<>>, <<F(MisfiledName)>>, <<F(ShortName)>>}
    [] OTHER -> {<<>>}

Perturbations(sc) ==
  {<<NoPath, <<>> >>} \cup
  UNION {{<<p, l>> : l \in AltLs(sc, Len(p))} : p \in BaseDirs(sc, FileDepth(sc) - 1)}

\* the listing of directory path in the archive of this run
Ls(path) == IF path = pertPath THEN pertList ELSE BaseLs(script, path)

\* path names a directory of the archive
RECURSIVE Exists(_)
Exists(path) ==
  IF path = <<>> THEN TRUE
  ELSE /\ Exists(Front(path))
       /\ D(Last(path)) \in SeqToSet(Ls(Front(path)))

(***************************************************************************)
(* get_elements: open the catalog URL with retries, parse it, collect the  *)
(* designated attribute of the matched children.  The transport is the     *)
(* environment: att[n] is the outcome of the n-th urlopen of this call and *)
(* parse says how the response parses.                                     *)
(***************************************************************************)
\* range(5) in get_elements
NTRY == 5

AttemptKinds == {"ok", "HTTPError", "URLError"}
ParseKinds == {"ok", "ParseError", "NoAttribute"}

\* k HTTP errors, then one attempt that ends as term
AttScript(k, term) ==
  [i \in 1..NTRY |-> IF i <= k THEN "HTTPError" ELSE IF i = k + 1 THEN term ELSE "ok"]

Nominal == [att |-> AttScript(0, "ok"), parse |-> "ok"]
NotFound == [att |-> AttScript(NTRY, "ok"), parse |-> "ok"]

\* how many listing calls and transfers go wrong in one run against the
\* base archive; a run against an archive with a replaced listing has none
MaxFaults == 1

\* the ways one listing call can go wrong: 1, NTRY - 1 or NTRY HTTP errors
\* (fewer than NTRY are followed by a good response), another exception at
\* the first or the second attempt, a response that does not parse, a child
\* without the attribute
Faults ==
  {[att |-> AttScript(k, "ok"), parse |-> "ok"] : k \in {1, NTRY - 1, NTRY}}
  \cup {[att |-> AttScript(k, "URLError"), parse |-> "ok"] : k \in 0..1}
  \cup {[att |-> AttScript(0, "ok"), parse |-> pk] : pk \in ParseKinds \ {"ok"}}

\* the retry loop of the CCMI-1 get_elements, from attempt ntry (0-based) on
RECURSIVE OpenLoop1(_, _)
OpenLoop1(att, ntry) ==
  IF ntry >= NTRY THEN [opened |-> FALSE, exc |-> "", opens |-> NTRY]
  ELSE CASE att[ntry + 1] = "ok" -> [opened |-> TRUE, exc |-> "", opens |-> ntry + 1]
         [] att[ntry + 1] = "HTTPError" ->
              IF ntry = 4 THEN [opened |-> FALSE, exc |-> "", opens |-> ntry + 1]
              ELSE OpenLoop1(att, ntry + 1)
         [] OTHER -> [opened |-> FALSE, exc |-> "", opens |-> ntry + 1]

\* the retry loop of the CCMI-2022 get_elements: a non-HTTP exception
\* propagates, and after the last HTTPError usock is an unbound local
RECURSIVE OpenLoop22(_, _)
OpenLoop22(att, ntry) ==
  IF ntry >= NTRY THEN [opened |-> FALSE, exc |-> "UnboundLocalError", opens |-> NTRY]
  ELSE CASE att[ntry + 1] = "ok" -> [opened |-> TRUE, exc |-> "", opens |-> ntry + 1]
         [] att[ntry + 1] = "HTTPError" -> OpenLoop22(att, ntry + 1)
         [] OTHER -> [opened |-> FALSE, exc |-> att[ntry + 1], opens |-> ntry + 1]

\* get_elements of the CCMI-1 script; attrs are the attribute values of the
\* matched children in document order
get_elements1(out, attrs) ==
  LET o == OpenLoop1(out.att, 0)
  IN  IF ~o.opened THEN [ret |-> <<>>, exc |-> "", opens |-> o.opens]
      ELSE CASE out.parse = "ParseError" -> [ret |-> <<>>, exc |-> "", opens |-> o.opens]
             [] out.parse = "NoAttribute" ->
                  [ret |-> IF attrs = <<>> THEN <<>> ELSE Tail(attrs),
                   exc |-> "", opens |-> o.opens]
             [] OTHER -> [ret |-> attrs, exc |-> "", opens |-> o.opens]

\* get_elements of the CCMI-2022 script
get_elements22(out, attrs) ==
  LET o == OpenLoop22(out.att, 0)
  IN  IF ~o.opened THEN [ret |-> <<>>, exc |-> o.exc, opens |-> o.opens]
      ELSE CASE out.parse = "ParseError" -> [ret |-> <<>>, exc |-> "ParseError", opens |-> o.opens]
             [] out.parse = "NoAttribute" /\ attrs # <<>> ->
                  [ret |-> <<>>, exc |-> "KeyError", opens |-> o.opens]
             [] OTHER -> [ret |-> attrs, exc |-> "", opens |-> o.opens]

\* ftpc.cwd(path) followed by list(ftpc.mlsd()): no retry, errors propagate
FtpFault == [att |-> [i \in 1..NTRY |-> "error_perm"], parse |-> "ok"]

ftp_mlsd(out, ents) ==
  IF out.att[1] = "ok" THEN [ret |-> ents, exc |-> "", opens |-> 1]
  ELSE [ret |-> <<>>, exc |-> "error_perm", opens |-> 1]

\* the attribute values the catalog of directory path holds for a tag pair:
\* titles of catalogRef children (kind "dir") or urlPaths of dataset
\* children (kind "file")
Attrs(path, kind) ==
  IF kind = "dir" THEN SelectNames(Ls(path), TRUE)
  ELSE LET fs == SelectNames(Ls(path), FALSE)
       IN  [i \in 1..Len(fs) |-> Append(path, fs[i])]

\* one listing call of the running script
Listing(sc, out, path, kind) ==
  CASE sc = "ccmi1" -> get_elements1(out, Attrs(path, kind))
    [] sc = "ccmi2022" -> get_elements22(out, Attrs(path, kind))
    [] OTHER -> LET r == ftp_mlsd(out, Ls(path))
                IN  [r EXCEPT !.ret = SelectNames(r.ret, kind = "dir")]

(***************************************************************************)

(***************************************************************************)
(* User settings of a run, and string helpers the scripts apply to them.   *)
(***************************************************************************)
VARIABLES trgexpt, trgvar, trgdata, OverwriteExistingFile

trgfreq == "mon"
trgrealm == "atmos"
freqdict == [fx |-> "fixed", day |-> "daily", mon |-> "monthly", yr |-> "annual"]
trgfreqname == freqdict[trgfreq]

\* name.split('_') for the entries trgdata can hold
SplitUnderscore ==
  [h2o_AmonZ |-> <<"h2o", "AmonZ">>, toz_Amon |-> <<"toz", "Amon">>]

trgxvar == [i \in 1..Len(trgdata) |-> SplitUnderscore[trgdata[i]][1]]
trgtble == [i \in 1..Len(trgdata) |-> SplitUnderscore[trgdata[i]][2]]
nvsrch == Len(trgxvar)

(***************************************************************************)
(* Program state.  stage is the position of the script: the listing call   *)
(* or transfer it is about to make.  idx holds the indexes of the loops    *)
(* that are open (ii, ij, ik, il, im, ip), icnt the running counters       *)
(* icnt1..icnt4.  The counters are set to 0 again where the next stage     *)
(* starts; icntEnd keeps, for every stage, the values they had when the    *)
(* loops of the stage ended.                                               *)
(***************************************************************************)
VARIABLES stage, err, idx, icnt, icntEnd, twork, instts, invntry, ninst,
          nmdls, nxpts, nsims, ntabs, nvars, invFile, invReturned,
          calls, lastCall, nfault

\* search state: the result lists, the search log, and the listings the
\* search loops run over
VARIABLES flist, found_files, filelist, searchLog, ifound, ldirs, vertrg,
          models, ensembles, versions, variables

\* download state: position in filelist (lfiles for ftp), the local
\* directories and files, the transfer requests issued so far (gets) and
\* how each of them went (xfers)
VARIABLES dli, localDirs, disk, gets, xfers, rcwd

\* use_existing_inventory_file is the setting of the run in progress;
\* firstRun keeps what the run that wrote the inventory file found
VARIABLES use_existing_inventory_file, firstRun

\* the variables no step of a run changes: the archive and the user settings
Env == <<script, pertPath, pertList, trgexpt, trgvar, trgdata, OverwriteExistingFile,
         use_existing_inventory_file, firstRun>>

\* the program state as one record, and its assignment to the variables
Cur ==
  [stage |-> stage, err |-> err, idx |-> idx, icnt |-> icnt, icntEnd |-> icntEnd,
   twork |-> twork,
   instts |-> instts, invntry |-> invntry, ninst |-> ninst, nmdls |-> nmdls,
   nxpts |-> nxpts, nsims |-> nsims, ntabs |-> ntabs, nvars |-> nvars,
   invFile |-> invFile, invReturned |-> invReturned,
   flist |-> flist, found_files |-> found_files, filelist |-> filelist,
   searchLog |-> searchLog, ifound |-> ifound, ldirs |-> ldirs, vertrg |-> vertrg,
   models |-> models, ensembles |-> ensembles, versions |-> versions,
   variables |-> variables, dli |-> dli, localDirs |-> localDirs, rcwd |-> rcwd]

Set(m) ==
  /\ stage' = m.stage /\ err' = m.err /\ idx' = m.idx /\ icnt' = m.icnt
  /\ icntEnd' = m.icntEnd
  /\ twork' = m.twork /\ instts' = m.instts /\ invntry' = m.invntry
  /\ ninst' = m.ninst /\ nmdls' = m.nmdls /\ nxpts' = m.nxpts
  /\ nsims' = m.nsims /\ ntabs' = m.ntabs /\ nvars' = m.nvars
  /\ invFile' = m.invFile /\ invReturned' = m.invReturned
  /\ flist' = m.flist /\ found_files' = m.found_files /\ filelist' = m.filelist
  /\ searchLog' = m.searchLog /\ ifound' = m.ifound /\ ldirs' = m.ldirs
  /\ vertrg' = m.vertrg /\ models' = m.models /\ ensembles' = m.ensembles
  /\ versions' = m.versions /\ variables' = m.variables /\ dli' = m.dli
  /\ localDirs' = m.localDirs /\ rcwd' = m.rcwd

Crash(m, e) == [m EXCEPT !.stage = "crashed", !.err = e]

\* the stages that are bodies of the counted loops over the inventory
LoopStages == {"models", "expts", "sims", "tabs", "vars", "search", "ftp_dl"}

\* number of nested loops around the body of a stage
NLoops(st) ==
  CASE st = "models" -> 1 [] st = "expts" -> 2 [] st = "sims" -> 3
    [] st = "tabs" -> 4 [] st = "vars" -> 5 [] OTHER -> 6

\* first value of the index of loop d (1 = ii, 2 = ij, ...)
LoopStart(sc, st, d) ==
  IF d = 1 \/ (st = "expts" /\ d = 2) \/ (st = "search" /\ d = 6) THEN 0 ELSE 1

\* a[i] for the count arrays (0-based); -1 stands for an IndexError
CountAt(a, i) == IF i >= 0 /\ i < Len(a) THEN a[i + 1] ELSE -1

\* exclusive end of range(...) of loop d; -1 when the count array is
\* indexed past its end
LoopStop(m, sc, d) ==
  LET c == CASE d = 1 -> m.ninst
             [] d = 2 -> CountAt(m.nmdls, m.idx[1])
             [] d = 3 -> CountAt(m.nxpts, m.icnt[1])
             [] d = 4 -> CountAt(m.nsims, m.icnt[2])
             [] d = 5 -> CountAt(m.ntabs, m.icnt[3])
             [] OTHER -> CountAt(m.nvars, m.icnt[4])
  IN  IF c = -1 THEN -1
      ELSE c + LoopStart(sc, m.stage, d)

\* the statements at the top of the body of loop d read invntry[ii][ij]..[i_d]
ReadsNode(sc, st, d) ==
  CASE st = "expts" -> d = 1
    [] st = "sims" -> d = 2
    [] st = "tabs" -> d = 3 \/ (sc = "ftp" /\ d = 2)
    [] st = "vars" -> d \in {2, 3, 4}
    [] st \in {"search", "ftp_dl"} -> d \in {2, 3, 4, 5}
    [] OTHER -> FALSE

\* ... and keep a deepcopy of it in twork
CopiesNode(sc, st, d) ==
  CASE st = "expts" -> d = 1
    [] st = "sims" -> d = 2
    [] st = "tabs" -> d = 3
    [] st = "vars" -> d = 4
    [] OTHER -> FALSE

\* the top of the body of loop d: IndexError when the node is not there
LoopPre(m, sc, d) ==
  IF ~ReadsNode(sc, m.stage, d) THEN m
  ELSE LET node == PyGet(m.invntry, m.idx)
       IN  IF node = PyErr \/ (d > 1 /\ PyGet(node, <<0>>) = PyErr)
           THEN Crash(m, "IndexError")
           ELSE IF CopiesNode(sc, m.stage, d) THEN [m EXCEPT !.twork = node] ELSE m

\* fullinvntry as create_inventory_file dumps and returns it
FullInventory(m, sc) ==
  [invntry |-> m.invntry, ninst |-> <<m.ninst>>, nmdls |-> m.nmdls, nxpts |-> m.nxpts,
   nsims |-> IF sc = "ccmi1" THEN <<>> ELSE m.nsims,
   ntabs |-> IF sc = "ccmi1" THEN <<>> ELSE m.ntabs,
   nvars |-> IF sc = "ccmi1" THEN <<>> ELSE m.nvars]

(***************************************************************************)
(* The inventory file.  pprint writes the repr of the nested list; the     *)
(* text is kept as its sequence of tokens (brackets, commas, quoted        *)
(* strings, numerals), which is what survives of the layout when eval      *)
(* reads the file back.  The numeral of a numpy integer counts as a        *)
(* numeral whether repr prints it bare or wrapped in its type name.        *)
(***************************************************************************)
Tok(k) == [k |-> k, s |-> "", d |-> <<>>]
StrTok(x) == [k |-> "str", s |-> x, d |-> <<>>]
IntTok(n) == [k |-> "int", s |-> "", d |-> StrOfInt(n)]

RECURSIVE PFormat(_)
RECURSIVE PFormatItems(_)
\* the repr of a nested list of strings
PFormat(v) ==
  IF v.t = "s" THEN <<StrTok(v.s)>>
  ELSE <<Tok("[")>> \o PFormatItems(v.l) \o <<Tok("]")>>

PFormatItems(items) ==
  IF items = <<>> THEN <<>>
  ELSE PFormat(Head(items))
       \o (IF Tail(items) = <<>> THEN <<>> ELSE <<Tok(",")>> \o PFormatItems(Tail(items)))

RECURSIVE PFormatIntItems(_)
PFormatIntItems(ns) ==
  IF ns = <<>> THEN <<>>
  ELSE <<IntTok(Head(ns))>>
       \o (IF Tail(ns) = <<>> THEN <<>> ELSE <<Tok(",")>> \o PFormatIntItems(Tail(ns)))

\* the repr of an array printed without list(): a call of a name that
\* the reading script does not define
PFormatInts_Array(ns) == <<[k |-> "name", s |-> "array", d |-> <<>>]>>

\* the repr of list(counts)
PFormatInts(ns) == <<Tok("[")>> \o PFormatIntItems(ns) \o <<Tok("]")>>

\* pp.pprint(fullinvntry): four elements in the CCMI-1 script, seven in
\* the CCMI-2022 script
PFormatFull(fi, sc) ==
  <<Tok("[")>> \o PFormat(fi.invntry)
  \o <<Tok(",")>> \o PFormatInts(fi.ninst)
  \o <<Tok(",")>> \o PFormatInts(fi.nmdls)
  \o <<Tok(",")>> \o PFormatInts(fi.nxpts)
  \o (IF sc = "ccmi1" THEN <<>>
      ELSE <<Tok(",")>> \o PFormatInts(fi.nsims)
           \o <<Tok(",")>> \o PFormatInts(fi.ntabs)
           \o <<Tok(",")>> \o PFormatInts(fi.nvars))
  \o <<Tok("]")>>

\* the values eval builds: strings, integers and lists of them
EvStr(x) == [t |-> "s", s |-> x, n |-> 0, l |-> <<>>]
EvInt(i) == [t |-> "i", s |-> "", n |-> i, l |-> <<>>]
EvList(x) == [t |-> "l", s |-> "", n |-> 0, l |-> x]
EvErr(e) == [t |-> "e", s |-> e, n |-> 0, l |-> <<>>]

RECURSIVE EvalValue(_)
RECURSIVE EvalItems(_, _)
\* one expression at the head of the tokens: its value and the tokens left
EvalValue(ts) ==
  IF ts = <<>> THEN [v |-> EvErr("SyntaxError"), rest |-> <<>>]
  ELSE CASE Head(ts).k = "str" -> [v |-> EvStr(Head(ts).s), rest |-> Tail(ts)]
         [] Head(ts).k = "int" ->
              LET i == ParseInt(Head(ts).d, 0)
              IN  [v |-> IF i = -1 THEN EvErr("SyntaxError") ELSE EvInt(i), rest |-> Tail(ts)]
         [] Head(ts).k = "[" -> EvalItems(Tail(ts), <<>>)
         [] Head(ts).k = "name" -> [v |-> EvErr("NameError"), rest |-> Tail(ts)]
         [] OTHER -> [v |-> EvErr("SyntaxError"), rest |-> Tail(ts)]

\* the elements of a list display up to its closing bracket
EvalItems(ts, acc) ==
  IF ts = <<>> THEN [v |-> EvErr("SyntaxError"), rest |-> <<>>]
  ELSE IF Head(ts).k = "]" THEN [v |-> EvList(acc), rest |-> Tail(ts)]
  ELSE LET r == EvalValue(ts)
       IN  IF r.v.t = "e" THEN r
           ELSE IF r.rest = <<>> THEN [v |-> EvErr("SyntaxError"), rest |-> <<>>]
           ELSE IF Head(r.rest).k = "," THEN EvalItems(Tail(r.rest), Append(acc, r.v))
           ELSE IF Head(r.rest).k = "]"
                THEN [v |-> EvList(Append(acc, r.v)), rest |-> Tail(r.rest)]
           ELSE [v |-> EvErr("SyntaxError"), rest |-> <<>>]

\* eval(f.read())
PyEval(ts) ==
  LET r == EvalValue(ts)
  IN  IF r.v.t = "e" THEN r.v
      ELSE IF r.rest # <<>> THEN EvErr("SyntaxError")
      ELSE r.v

RECURSIVE AsNode(_)
\* a nested list of strings read from the file, as the build holds it
AsNode(v) ==
  IF v.t = "s" THEN PS(v.s)
  ELSE IF v.t = "l" THEN PL([i \in 1..Len(v.l) |-> AsNode(v.l[i])])
  ELSE PyErr

\* np.array(fullinvntry[k]) for a list of integers; <<>> when the list has
\* no k-th element
AsCounts(v, k) ==
  IF v.t = "l" /\ k < Len(v.l) /\ v.l[k + 1].t = "l"
  THEN [i \in 1..Len(v.l[k + 1].l) |-> v.l[k + 1].l[i].n]
  ELSE <<>>

\* the first statements of search_inventory: the inventory and the count
\* lists taken out of fullinvntry
Unpack(v) ==
  [invntry |-> IF v.t = "l" /\ v.l # <<>> THEN AsNode(v.l[1]) ELSE PyErr,
   ninst |-> AsCounts(v, 1), nmdls |-> AsCounts(v, 2), nxpts |-> AsCounts(v, 3),
   nsims |-> AsCounts(v, 4), ntabs |-> AsCounts(v, 5), nvars |-> AsCounts(v, 6)]

\* the inventory dump at the end of create_inventory_file, and its return
WriteInventory(m, sc) ==
  [m EXCEPT !.invFile = <<PFormatFull(FullInventory(m, sc), sc)>>, !.invReturned = TRUE]

\* the download loop is over when filelist is exhausted
DlRun(m) == IF m.dli > Len(m.filelist) THEN [m EXCEPT !.stage = "done"] ELSE m

RECURSIVE Flatten(_)
\* filelist += fentry[1] for every entry of flist
Flatten(fl) == IF fl = <<>> THEN <<>> ELSE Head(fl).files \o Flatten(Tail(fl))

\* the end of the ftp script: close the connection, dump invntry
FtpFinish(m) ==
  [m EXCEPT !.invFile = <<PFormat(m.invntry)>>, !.stage = "done", !.idx = <<>>]

\* the statements of the main script after fullinvntry is there, built or
\* read: up to the first listing call of the search
EnterSearch(w, sc) ==
  IF sc = "ccmi1"
  THEN IF trgexpt # <<>> THEN [w EXCEPT !.stage = "c1_root", !.idx = <<>>]
       ELSE DlRun([w EXCEPT !.stage = "download", !.filelist = <<>>, !.dli = 1,
                            !.idx = <<>>])
  ELSE IF trgexpt # <<>>
       THEN [w EXCEPT !.stage = "search", !.idx = <<0>>, !.icnt = <<0, 0, 0, 0>>,
                      !.flist = [i \in 1..w.ninst |->
                                   [name |-> PyGet(w.invntry, <<i - 1, 0>>).s,
                                    files |-> <<>>]]]
       ELSE [Crash(w, "UnboundLocalError") EXCEPT !.searchLog = "empty"]

\* the statements between the end of one stage's loops and the first loop
\* of the next stage
StageEnd(m, sc) ==
  CASE m.stage = "models" ->
         [m EXCEPT !.stage = "expts", !.idx = <<0>>, !.icnt = <<0, 0, 0, 0>>,
                   !.nxpts = Zeros(SumSeq(m.nmdls))]
    [] m.stage = "expts" /\ sc = "ccmi1" -> EnterSearch(WriteInventory(m, sc), sc)
    [] m.stage = "expts" /\ sc # "ccmi1" ->
         [m EXCEPT !.stage = "sims", !.idx = <<0>>, !.icnt = <<0, 0, 0, 0>>,
                   !.nsims = Zeros(SumSeq(m.nxpts))]
    [] m.stage = "sims" ->
         [m EXCEPT !.stage = "tabs", !.idx = <<0>>, !.icnt = <<0, 0, 0, 0>>,
                   !.ntabs = Zeros(SumSeq(m.nsims))]
    [] m.stage = "tabs" ->
         [m EXCEPT !.stage = "vars", !.idx = <<0>>, !.icnt = <<0, 0, 0, 0>>,
                   !.nvars = Zeros(SumSeq(m.ntabs))]
    [] m.stage = "vars" /\ sc = "ccmi2022" -> EnterSearch(WriteInventory(m, sc), sc)
    [] m.stage = "vars" /\ sc = "ftp" ->
         IF trgexpt # <<>>
         THEN [m EXCEPT !.stage = "ftp_dl", !.idx = <<0>>, !.icnt = <<0, 0, 0, 0>>,
                        !.localDirs = @ \cup {"."}]
         ELSE FtpFinish(m)
    [] m.stage = "search" ->
         DlRun([m EXCEPT !.searchLog = "written", !.filelist = Flatten(m.flist),
                         !.stage = "download", !.dli = 1, !.idx = <<>>])
    [] OTHER -> FtpFinish(m)

\* the end of loop d without the increment of the running counter
LoopClose_NoCount(m, d) ==
  [m EXCEPT !.idx = [Front(m.idx) EXCEPT ![d - 1] = @ + 1]]

\* loop d has ended: the statements after it in the body of loop d - 1
\* (icnt1 += 1 after the loop over ik, icnt2 += 1 after the loop over il,
\* ...) and the step of loop d - 1 to its next index
LoopClose(m, d) ==
  [m EXCEPT !.idx = [Front(m.idx) EXCEPT ![d - 1] = @ + 1],
            !.icnt = IF d >= 3 THEN [m.icnt EXCEPT ![d - 2] = @ + 1] ELSE m.icnt]

\* loop control of the counted loops: from the current indexes, run the
\* loop tests, the tops of the loop bodies and the counter increments at
\* the loop ends, up to the next body of the innermost loop of the stage
\* (or the end of the inventory pass)
RECURSIVE LoopRun(_, _)
LoopRun(m, sc) ==
  IF m.stage \notin LoopStages THEN m
  ELSE LET d == Len(m.idx)
           stop == LoopStop(m, sc, d)
       IN  IF stop = -1 THEN Crash(m, "IndexError")
           ELSE IF m.idx[d] < stop
           THEN LET m2 == LoopPre(m, sc, d)
                IN  IF m2.stage = "crashed" \/ d = NLoops(m.stage) THEN m2
                    ELSE LoopRun([m2 EXCEPT !.idx = Append(m2.idx, LoopStart(sc, m2.stage, d + 1))], sc)
           ELSE IF d = 1
           THEN LoopRun(StageEnd([m EXCEPT !.icntEnd[m.stage] = m.icnt], sc), sc)
           ELSE LoopRun(LoopClose(m, d), sc)

\* the end of one pass of the innermost loop body: next index, then loop control
NextIter(m, sc) ==
  LoopRun([m EXCEPT !.idx = [m.idx EXCEPT ![Len(m.idx)] = @ + 1]], sc)

(***************************************************************************)
(* Listing calls as steps.  The environment picks the outcome of the call: *)
(* a directory that is not in the archive answers 404 to every attempt     *)
(* (550 over FTP); a directory that is there answers normally or, at most *)
(* MaxFaults times in a run against the base archive, with one of Faults.  *)
(***************************************************************************)
Outcomes(path) ==
  IF ~Exists(path) THEN {IF script = "ftp" THEN FtpFault ELSE NotFound}
  ELSE {Nominal} \cup
       (IF nfault >= MaxFaults THEN {} ELSE IF script = "ftp" THEN {FtpFault} ELSE Faults)

\* bookkeeping of one listing call
Logged(phase, path, kind, out, r) ==
  /\ calls' = Append(calls, [phase |-> phase, path |-> path, kind |-> kind,
                              fault |-> (Exists(path) /\ out # Nominal),
                              failed |-> (\A i \in 1..r.opens : out.att[i] # "ok"),
                              nret |-> IF r.exc = "" THEN Len(r.ret) ELSE -1,
                              ret |-> IF r.exc = "" THEN r.ret ELSE <<>>])
  /\ lastCall' = [path |-> path, kind |-> kind, att |-> out.att, parse |-> out.parse,
                  opens |-> r.opens, exc |-> r.exc, ret |-> r.ret]
  /\ nfault' = nfault + (IF Exists(path) /\ out # Nominal THEN 1 ELSE 0)

\* the names on the way to the node at indexes ix of the inventory:
\* invntry[ii][0], invntry[ii][ij][0], ...
RECURSIVE NodeNames(_, _, _)
NodeNames(inv, ix, n) ==
  IF n = 0 THEN <<>>
  ELSE Append(NodeNames(inv, ix, n - 1), PyGet(inv, Append(SubSeq(ix, 1, n), 0)))

\* a sequence of Python values as strings; <<"?">> if one is not a string
AsPath(vals) ==
  IF \E i \in 1..Len(vals) : vals[i].t # "s" THEN <<"?">>
  ELSE [i \in 1..Len(vals) |-> vals[i].s]

\* lst.insert(off + k, [names[k]]) for k = 0, 1, ... on the list at node
RECURSIVE InsertChildren(_, _, _, _, _)
InsertChildren(inv, node, off, names, k) ==
  IF k >= Len(names) \/ inv = PyErr THEN inv
  ELSE InsertChildren(PyInsert(inv, node, off + k, PL(<<PS(names[k + 1])>>)),
                      node, off, names, k + 1)

\* lst.insert(k, names[k]) for k = from, from + 1, ... on the list at node
RECURSIVE InsertStrings(_, _, _, _)
InsertStrings(inv, node, names, k) ==
  IF k >= Len(names) \/ inv = PyErr THEN inv
  ELSE InsertStrings(PyInsert(inv, node, k, PS(names[k + 1])), node, names, k + 1)

\* a[i] = v on a count array (0-based); <<-1>> stands for an IndexError
CountSet(a, i, v) == IF i >= 0 /\ i < Len(a) THEN [a EXCEPT ![i + 1] = v] ELSE <<-1>>

\* create_inventory_file / ftp: the listing of the top-level catalog
InvRoot ==
  /\ stage = "root"
  /\ \E out \in Outcomes(<<>>) :
       LET r == Listing(script, out, <<>>, "dir")
           m == [Cur EXCEPT !.instts = r.ret, !.ninst = Len(r.ret),
                            !.invntry = PL(<<>>), !.nmdls = Zeros(Len(r.ret)),
                            !.stage = "models", !.idx = <<0>>]
       IN  /\ Logged("build", <<>>, "dir", out, r)
           /\ Set(IF r.exc # "" THEN Crash(Cur, r.exc) ELSE LoopRun(m, script))
  /\ UNCHANGED <<Env, disk, gets, xfers>>

\* the models of institution ii
InvModels ==
  /\ stage = "models"
  /\ LET ii == idx[1]
         path == <<instts[ii + 1]>>
     IN  \E out \in Outcomes(path) :
           LET r == Listing(script, out, path, "dir")
               m == [Cur EXCEPT !.nmdls = CountSet(nmdls, ii, Len(r.ret)),
                                !.invntry = PL(Append(invntry.l,
                                               PL(<<PS(instts[ii + 1]), StrList(r.ret)>>)))]
           IN  /\ Logged("build", path, "dir", out, r)
               /\ Set(IF r.exc # "" THEN Crash(Cur, r.exc) ELSE NextIter(m, script))
  /\ UNCHANGED <<Env, disk, gets, xfers>>

\* the experiments of model ij of institution ii
InvExpts ==
  /\ stage = "expts"
  /\ LET ii == idx[1]
         ij == idx[2]
         path == AsPath(<<PyGet(twork, <<0>>), PyGet(twork, <<1, ij>>)>>)
     IN  \E out \in Outcomes(path) :
           LET r == Listing(script, out, path, "dir")
               inv2 == InsertChildren(invntry, <<ii, 1>>, 2 * ij + 1, r.ret, 0)
               cnt2 == CountSet(nxpts, icnt[1], Len(r.ret))
               m == [Cur EXCEPT !.invntry = inv2, !.nxpts = cnt2,
                                !.icnt = [icnt EXCEPT ![1] = @ + 1]]
           IN  /\ Logged("build", path, "dir", out, r)
               /\ Set(IF r.exc # "" THEN Crash(Cur, r.exc)
                      ELSE IF inv2 = PyErr \/ cnt2 = <<-1>> THEN Crash(Cur, "IndexError")
                      ELSE NextIter(m, script))
  /\ UNCHANGED <<Env, disk, gets, xfers>>

\* the same path with the name of the first child of twork, whatever the
\* loop index
BodyPath_FirstChild ==
  AsPath(Append(NodeNames(invntry, idx, Len(idx) - 1), PyGet(twork, <<1, 0>>)))

\* the path of the directory the body of stage sims, tabs or vars lists:
\* names from invntry down to the parent, the last name from twork
BodyPath == AsPath(Append(NodeNames(invntry, idx, Len(idx) - 1), PyGet(twork, <<Last(idx), 0>>)))

\* the runs of an experiment (sims), the MIP tables of a run (tabs)
InvLevel(st, n) ==
  /\ stage = st
  /\ LET path == BodyPath
     IN  IF path = <<"?">>
         THEN /\ Set(Crash(Cur, "IndexError"))
              /\ UNCHANGED <<calls, lastCall, nfault>>
         ELSE \E out \in Outcomes(path) :
           LET r == Listing(script, out, path, "dir")
               inv2 == InsertChildren(invntry, idx, 1, r.ret, 0)
               old == IF n = 2 THEN nsims ELSE ntabs
               cnt2 == CountSet(old, icnt[n], Len(r.ret))
               m == [Cur EXCEPT !.invntry = inv2,
                                !.nsims = IF n = 2 THEN cnt2 ELSE @,
                                !.ntabs = IF n = 3 THEN cnt2 ELSE @,
                                !.icnt = [icnt EXCEPT ![n] = @ + 1]]
           IN  /\ Logged("build", path, "dir", out, r)
               /\ Set(IF r.exc # "" THEN Crash(Cur, r.exc)
                      ELSE IF inv2 = PyErr \/ cnt2 = <<-1>> THEN Crash(Cur, "IndexError")
                      ELSE NextIter(m, script))
  /\ UNCHANGED <<Env, disk, gets, xfers>>

InvSims == InvLevel("sims", 2)

InvTabs == InvLevel("tabs", 3)

\* the variable directories of a MIP table: ccmi2022 keeps their names in
\* one list [v0, v1, ...] at position 1, ftp keeps [v0], [v1], ... 
InvVars ==
  /\ stage = "vars"
  /\ LET path == BodyPath
     IN  IF path = <<"?">>
         THEN /\ Set(Crash(Cur, "IndexError"))
              /\ UNCHANGED <<calls, lastCall, nfault>>
         ELSE \E out \in Outcomes(path) :
           LET r == Listing(script, out, path, "dir")
               inv2 == IF script = "ftp" THEN InsertChildren(invntry, idx, 1, r.ret, 0)
                       ELSE IF r.ret = <<>> THEN PyErr
                       ELSE InsertStrings(PyInsert(invntry, idx, 1, PL(<<PS(r.ret[1])>>)),
                                          Append(idx, 1), r.ret, 1)
               cnt2 == CountSet(nvars, icnt[4], Len(r.ret))
               m == [Cur EXCEPT !.invntry = inv2, !.nvars = cnt2,
                                !.icnt = [icnt EXCEPT ![4] = @ + 1]]
           IN  /\ Logged("build", path, "dir", out, r)
               /\ Set(IF r.exc # "" THEN Crash(Cur, r.exc)
                      ELSE IF inv2 = PyErr \/ cnt2 = <<-1>> THEN Crash(Cur, "IndexError")
                      ELSE NextIter(m, script))
  /\ UNCHANGED <<Env, disk, gets, xfers>>

(***************************************************************************)
(* Version names.  A directory name is a string; Chars gives its           *)
(* characters so that vers[iv][1:], int(), str() and sorted() can be       *)
(* computed as Python computes them.                                       *)
(***************************************************************************)
Chars ==
  [v1 |-> <<"v", "1">>, v2 |-> <<"v", "2">>, v10 |-> <<"v", "1", "0">>,
   v01 |-> <<"v", "0", "1">>, v02 |-> <<"v", "0", "2">>,
   latest |-> <<"l", "a", "t", "e", "s", "t">>]

\* int(name[1:])
IntOfSuffix(name) ==
  IF Len(Chars[name]) < 2 THEN -1 ELSE ParseInt(Tail(Chars[name]), 0)

\* the string with the given characters
FromChars(cs) == CHOOSE n \in DOMAIN Chars : Chars[n] = cs

SeqMax(ns) == CHOOSE x \in SeqToSet(ns) : \A y \in SeqToSet(ns) : y <= x

\* a < b for Python strings
RECURSIVE LexLess(_, _)
LexLess(a, b) ==
  IF b = <<>> THEN FALSE
  ELSE IF a = <<>> THEN TRUE
  ELSE IF CharCode[Head(a)] # CharCode[Head(b)] THEN CharCode[Head(a)] < CharCode[Head(b)]
  ELSE LexLess(Tail(a), Tail(b))

\* sorted(names)
RECURSIVE Sorted(_)
Sorted(names) ==
  IF names = <<>> THEN <<>>
  ELSE LET i == CHOOSE k \in 1..Len(names) :
                  \A j \in 1..Len(names) :
                    /\ ~LexLess(Chars[names[j]], Chars[names[k]])
                    /\ (j < k => LexLess(Chars[names[k]], Chars[names[j]]))
       IN  <<names[i]>> \o Sorted(SubSeq(names, 1, i - 1) \o SubSeq(names, i + 1, Len(names)))

\* the version directory search_inventory takes: "IndexError" for an empty
\* listing, "ValueError" for a suffix int() rejects
VersionTarget(vers) ==
  IF Len(vers) > 1
  THEN LET nwork == [iv \in 1..Len(vers) |-> IntOfSuffix(vers[iv])]
       IN  IF \E iv \in 1..Len(vers) : nwork[iv] = -1 THEN "ValueError"
           ELSE FromChars(<<"v">> \o StrOfInt(SeqMax(nwork)))
  ELSE IF vers = <<>> THEN "IndexError" ELSE vers[1]

(***************************************************************************)
(* search_inventory of the CCMI-2022 script                                *)
(***************************************************************************)
\* the filter test without the experiment
Match22_NoExpt(expt, mtab, xvar) ==
  InSeq(mtab, trgtble) /\ InSeq(xvar, trgxvar)

\* the filter test without the table
Match22_NoTable(expt, mtab, xvar) ==
  InSeq(expt, trgexpt) /\ InSeq(xvar, trgxvar)

\* the filter test of search_inventory
Match22(expt, mtab, xvar) ==
  InSeq(expt, trgexpt) /\ InSeq(mtab, trgtble) /\ InSeq(xvar, trgxvar)

\* the filter test of the ftp download section
MatchFtp(expt, mtab, xvar) ==
  /\ InSeq(expt, trgexpt)
  /\ \E ih \in 1..nvsrch : mtab = trgtble[ih] /\ xvar = trgxvar[ih]

\* the variable the innermost loop is at: invntry[ii][ij][ik][il][im][1][ip]
\* (ccmi2022) or invntry[ia][ib][ic][id][ie][ig][0] (ftp)
CurVar ==
  IF script = "ftp" THEN PyGet(invntry, Append(idx, 0))
  ELSE PyGet(invntry, SubSeq(idx, 1, 5) \o <<1, idx[6]>>)

\* the directory of the variable the innermost loop is at
VarPath == AsPath(Append(NodeNames(invntry, idx, 5), CurVar))

\* one pass of the innermost search loop up to the first listing call
SearchVisit ==
  /\ stage = "search"
  /\ LET names == VarPath
     IN  Set(IF names = <<"?">> THEN Crash(Cur, "IndexError")
             ELSE IF Match22(names[3], names[5], names[6])
                  THEN [Cur EXCEPT !.stage = "s_grid", !.ifound = 1]
                  ELSE NextIter([Cur EXCEPT !.ifound = 1], script))
  /\ UNCHANGED <<Env, calls, lastCall, nfault, disk, gets, xfers>>

\* the grid-label directories of a matching variable
SearchGrid ==
  /\ stage = "s_grid"
  /\ \E out \in Outcomes(VarPath) :
       LET r == Listing(script, out, VarPath, "dir")
       IN  /\ Logged("search", VarPath, "dir", out, r)
           /\ Set(IF r.exc # "" THEN Crash(Cur, r.exc)
                  ELSE IF r.ret = <<>> THEN Crash([Cur EXCEPT !.ldirs = r.ret], "IndexError")
                  ELSE [Cur EXCEPT !.ldirs = r.ret, !.stage = "s_vers"])
  /\ UNCHANGED <<Env, disk, gets, xfers>>

\* the version directories under the first grid label, and the choice of one
SearchVers ==
  /\ stage = "s_vers"
  /\ LET path == Append(VarPath, ldirs[1])
     IN  \E out \in Outcomes(path) :
           LET r == Listing(script, out, path, "dir")
               v == VersionTarget(r.ret)
           IN  /\ Logged("search", path, "dir", out, r)
               /\ Set(IF r.exc # "" THEN Crash(Cur, r.exc)
                      ELSE IF v \in {"IndexError", "ValueError"}
                           THEN Crash([Cur EXCEPT !.versions = r.ret], v)
                      ELSE [Cur EXCEPT !.versions = r.ret, !.vertrg = v, !.stage = "s_files"])
  /\ UNCHANGED <<Env, disk, gets, xfers>>

\* flist[ii][1].insert(ifound, files[iq]); ifound += 1 for every file
RECURSIVE InsertFiles(_, _, _)
InsertFiles(lst, pos, files) ==
  IF files = <<>> THEN lst
  ELSE InsertFiles(SeqInsert(lst, pos, Head(files)), pos + 1, Tail(files))

\* the files of the chosen version directory
SearchFiles ==
  /\ stage = "s_files"
  /\ LET path == VarPath \o <<ldirs[1], vertrg>>
         ii == idx[1]
     IN  \E out \in Outcomes(path) :
           LET r == Listing(script, out, path, "file")
               m == [Cur EXCEPT !.flist[ii + 1].files = InsertFiles(@, ifound, r.ret),
                                !.ifound = ifound + Len(r.ret),
                                !.stage = "search"]
           IN  /\ Logged("search", path, "file", out, r)
               /\ Set(IF r.exc # "" THEN Crash(Cur, r.exc) ELSE NextIter(m, script))
  /\ UNCHANGED <<Env, disk, gets, xfers>>

(***************************************************************************)
(* The download loop of the two XML scripts                                *)
(***************************************************************************)
\* os.path.basename(afile).split('_'): archive files are named
\* var_freq_model_expt_ens_part (CCMI-1), var_table_model_expt_run_grid_part
Basename(sc, f) ==
  IF Last(f) \in DOMAIN SplitName THEN SplitName[Last(f)]
  ELSE IF sc = "ccmi1" THEN <<f[9], f[4], f[2], f[3], f[7], f[10]>>
  ELSE <<f[6], f[5], f[2], f[3], f[4], f[7], f[9]>>

\* the local file a remote file is written to: downloaddir, then
\* destfilebase.split('_')[3], then destfilebase ("?" where the name has
\* no fourth field); the ftp script writes into the working directory
Dest(sc, f) ==
  [dir |-> IF sc = "ftp" THEN "."
           ELSE IF Len(Basename(sc, f)) < 4 THEN "?" ELSE Basename(sc, f)[4],
   base |-> Basename(sc, f)]

OnDisk(dest) == \E e \in disk : e.dest = dest

Written(dest, content) == {e \in disk : e.dest # dest} \cup {[dest |-> dest, content |-> content]}

\* outcomes of session.get / retrbinary
TransferOutcomes == {"ok"} \cup (IF nfault >= MaxFaults THEN {} ELSE {"HTTPStatus", "ConnectionError"})

\* the except clauses of the download loop print a failure message: for
\* any exception of session.get, for a bad status only where
\* raise_for_status is called (CCMI-1), and when open(destfile) fails
Reported(sc, res, dirThere) ==
  CASE res = "ConnectionError" -> TRUE
    [] res = "HTTPStatus" -> sc = "ccmi1" \/ ~dirThere
    [] OTHER -> ~dirThere

\* one pass of the download loop
Download ==
  /\ stage = "download"
  /\ LET afile == filelist[dli]
         dest == Dest(script, afile)
         dirs2 == IF script = "ccmi1" THEN localDirs \cup {dest.dir} ELSE localDirs
         nxt == DlRun([Cur EXCEPT !.dli = dli + 1, !.localDirs = dirs2])
     IN  /\ Set(IF dest.dir = "?" THEN Crash(Cur, "IndexError") ELSE nxt)
         /\ IF dest.dir = "?" \/ (~OverwriteExistingFile /\ OnDisk(dest))
            THEN UNCHANGED <<disk, gets, xfers, nfault>>
            ELSE \E res \in TransferOutcomes :
                   /\ gets' = Append(gets, afile)
                   /\ xfers' = Append(xfers, [file |-> afile, res |-> res,
                                               reported |-> Reported(script, res, dest.dir \in dirs2)])
                   /\ nfault' = nfault + (IF res # "ok" THEN 1 ELSE 0)
                   /\ disk' = CASE res = "ConnectionError" -> disk
                                [] res = "HTTPStatus" /\ script = "ccmi1" -> disk
                                [] dest.dir \notin dirs2 -> disk
                                [] res = "HTTPStatus" -> Written(dest, "errbody")
                                [] OTHER -> Written(dest, "new")
  /\ UNCHANGED <<Env, calls, lastCall>>

(***************************************************************************)
(* search_inventory_ccmi1: the live search of the CCMI-1 script.  Here idx *)
(* holds the 1-based positions in instts, models, trgexpt, ensembles,      *)
(* sorted(versions) and trgvar.                                            *)
(***************************************************************************)
\* the sequence loop d of the search iterates over
C1List(m, d) ==
  CASE d = 1 -> m.instts [] d = 2 -> m.models [] d = 3 -> trgexpt
    [] d = 4 -> m.ensembles [] d = 5 -> m.versions [] OTHER -> trgvar

\* the end of search_inventory_ccmi1: write the log, return found_files
C1Finish(m) ==
  DlRun([m EXCEPT !.searchLog = "written", !.filelist = m.found_files,
                  !.stage = "download", !.dli = 1, !.idx = <<>>])

\* loop control of the search: up to the next listing call
RECURSIVE C1Run(_)
C1Run(m) ==
  LET d == Len(m.idx)
  IN  IF m.idx[d] <= Len(C1List(m, d))
      THEN CASE d = 1 -> [m EXCEPT !.stage = "c1_models"]
             [] d = 2 -> C1Run([m EXCEPT !.idx = Append(m.idx, 1)])
             [] d = 3 -> [m EXCEPT !.stage = "c1_freq"]
             [] d = 4 -> [m EXCEPT !.stage = "c1_vers"]
             [] d = 5 -> [m EXCEPT !.stage = "c1_vars"]
             [] OTHER -> IF InSeq(trgvar[m.idx[6]], m.variables)
                         THEN [m EXCEPT !.stage = "c1_files"]
                         ELSE C1Run([m EXCEPT !.idx[6] = @ + 1])
      ELSE IF d = 1 THEN C1Finish(m)
      ELSE C1Run([m EXCEPT !.idx = [Front(m.idx) EXCEPT ![d - 1] = @ + 1]])

\* continue with the next pass of the innermost open loop
C1Next(m) == C1Run([m EXCEPT !.idx[Len(m.idx)] = @ + 1])

\* enter the loop over the list just fetched
C1Enter(m) == C1Run([m EXCEPT !.idx = Append(m.idx, 1)])

\* the directory names the open loops of the search are at
C1Path ==
  LET names == <<instts, models, trgexpt, ensembles, versions, trgvar>>
      at(d) == names[d][idx[d]]
  IN  CASE Len(idx) = 1 -> <<at(1)>>
        [] Len(idx) \in {2, 3} -> <<at(1), at(2), at(3)>>
        [] Len(idx) = 4 -> <<at(1), at(2), at(3), trgfreq, trgrealm, trgfreqname, at(4)>>
        [] Len(idx) = 5 ->
             <<at(1), at(2), at(3), trgfreq, trgrealm, trgfreqname, at(4), at(5)>>
        [] OTHER ->
             <<at(1), at(2), at(3), trgfreq, trgrealm, trgfreqname, at(4), at(5), at(6)>>

AfterRoot(m, ret) == C1Run([m EXCEPT !.instts = ret, !.found_files = <<>>, !.idx = <<1>>])
AfterModels(m, ret) == C1Enter([m EXCEPT !.models = ret])
AfterFreq(m, ret) ==
  IF ~InSeq(trgrealm, ret) THEN C1Next(m) ELSE [m EXCEPT !.stage = "c1_realm"]
AfterRealm(m, ret) ==
  IF ~InSeq(trgfreqname, ret) THEN C1Next(m) ELSE [m EXCEPT !.stage = "c1_ens"]
AfterEns(m, ret) == C1Enter([m EXCEPT !.ensembles = ret])
AfterVers(m, ret) == C1Enter([m EXCEPT !.versions = Sorted(ret)])
AfterVars(m, ret) == C1Enter([m EXCEPT !.variables = ret])
AfterFiles(m, ret) == C1Next([m EXCEPT !.found_files = @ \o ret])

\* what the search does with the result of the listing call of stage st
C1After(st, m, ret) ==
  CASE st = "c1_root" -> AfterRoot(m, ret)
    [] st = "c1_models" -> AfterModels(m, ret)
    [] st = "c1_freq" -> AfterFreq(m, ret)
    [] st = "c1_realm" -> AfterRealm(m, ret)
    [] st = "c1_ens" -> AfterEns(m, ret)
    [] st = "c1_vers" -> AfterVers(m, ret)
    [] st = "c1_vars" -> AfterVars(m, ret)
    [] OTHER -> AfterFiles(m, ret)

\* one listing call of the search
C1Call(st, path, kind) ==
  /\ stage = st
  /\ \E out \in Outcomes(path) :
       LET r == Listing(script, out, path, kind)
       IN  /\ Logged("search", path, kind, out, r)
           /\ Set(IF r.exc # "" THEN Crash(Cur, r.exc) ELSE C1After(st, Cur, r.ret))
  /\ UNCHANGED <<Env, disk, gets, xfers>>

C1Root == C1Call("c1_root", <<>>, "dir")
C1Models == C1Call("c1_models", C1Path, "dir")
C1Freq == C1Call("c1_freq", Append(C1Path, trgfreq), "dir")
C1Realm == C1Call("c1_realm", C1Path \o <<trgfreq, trgrealm>>, "dir")
C1Ens == C1Call("c1_ens", C1Path \o <<trgfreq, trgrealm, trgfreqname>>, "dir")
C1Vers == C1Call("c1_vers", C1Path, "dir")
C1Vars == C1Call("c1_vars", C1Path, "dir")
C1Files == C1Call("c1_files", C1Path, "file")

(***************************************************************************)
(* The download section of the ftp script                                  *)
(***************************************************************************)
\* one pass of the innermost loop up to the first ftpc.cwd
FtpVisit ==
  /\ stage = "ftp_dl"
  /\ LET names == VarPath
     IN  Set(IF names = <<"?">> THEN Crash(Cur, "IndexError")
             ELSE IF MatchFtp(names[3], names[5], names[6])
                  THEN [Cur EXCEPT !.stage = "f_grid"]
                  ELSE NextIter(Cur, script))
  /\ UNCHANGED <<Env, calls, lastCall, nfault, disk, gets, xfers>>

\* cwd to the variable directory, list it; then cwd(ldirs[0])
FtpGrid ==
  /\ stage = "f_grid"
  /\ \E out \in Outcomes(VarPath) :
       LET r == Listing(script, out, VarPath, "dir")
       IN  /\ Logged("search", VarPath, "dir", out, r)
           /\ Set(IF r.exc # "" THEN Crash(Cur, r.exc)
                  ELSE IF r.ret = <<>> THEN Crash([Cur EXCEPT !.ldirs = r.ret], "IndexError")
                  ELSE [Cur EXCEPT !.ldirs = r.ret, !.rcwd = Append(VarPath, r.ret[1]),
                                   !.stage = "f_vers"])
  /\ UNCHANGED <<Env, disk, gets, xfers>>

\* list the grid-label directory; then cwd(ldirs[-1])
FtpVers ==
  /\ stage = "f_vers"
  /\ \E out \in Outcomes(rcwd) :
       LET r == Listing(script, out, rcwd, "dir")
       IN  /\ Logged("search", rcwd, "dir", out, r)
           /\ Set(IF r.exc # "" THEN Crash(Cur, r.exc)
                  ELSE IF r.ret = <<>> THEN Crash([Cur EXCEPT !.ldirs = r.ret], "IndexError")
                  ELSE [Cur EXCEPT !.ldirs = r.ret, !.versions = r.ret,
                                   !.vertrg = Last(r.ret),
                                   !.rcwd = Append(rcwd, Last(r.ret)), !.stage = "f_files"])
  /\ UNCHANGED <<Env, disk, gets, xfers>>

\* the retrieval loop is over when lfiles is exhausted
FtpDlRun(m) ==
  IF m.dli > Len(m.filelist) THEN NextIter([m EXCEPT !.stage = "ftp_dl"], "ftp") ELSE m

\* list the version directory: lfiles
FtpFiles ==
  /\ stage = "f_files"
  /\ \E out \in Outcomes(rcwd) :
       LET r == Listing(script, out, rcwd, "file")
           m == [Cur EXCEPT !.filelist = [i \in 1..Len(r.ret) |-> Append(rcwd, r.ret[i])],
                            !.dli = 1, !.stage = "f_retr"]
       IN  /\ Logged("search", rcwd, "file", out, r)
           /\ Set(IF r.exc # "" THEN Crash(Cur, r.exc) ELSE FtpDlRun(m))
  /\ UNCHANGED <<Env, disk, gets, xfers>>

\* ftpc.retrbinary('RETR ' + dfile, open(dfile, "wb").write)
FtpRetr ==
  /\ stage = "f_retr"
  /\ LET afile == filelist[dli]
         dest == Dest(script, afile)
     IN  \E res \in {"ok"} \cup (IF nfault >= MaxFaults THEN {} ELSE {"error_perm"}) :
           /\ gets' = Append(gets, afile)
           /\ xfers' = Append(xfers, [file |-> afile, res |-> res, reported |-> res # "ok"])
           /\ nfault' = nfault + (IF res # "ok" THEN 1 ELSE 0)
           /\ disk' = Written(dest, IF res = "ok" THEN "new" ELSE "empty")
           /\ Set(IF res = "ok" THEN FtpDlRun([Cur EXCEPT !.dli = dli + 1])
                  ELSE Crash(Cur, res))
  /\ UNCHANGED <<Env, calls, lastCall>>

\* a second run of one of the XML scripts after a run that went through
\* without a fault, with use_existing_inventory_file = True and
\* inventory_file naming the file that run wrote:
\* fullinvntry = eval(f.read()), then the search.  The second run meets
\* no fault either.
Rerun ==
  /\ script # "ftp" /\ stage = "done" /\ invFile # <<>>
  /\ ~use_existing_inventory_file
  /\ nfault = 0 \/ pertPath # NoPath
  /\ use_existing_inventory_file' = TRUE
  /\ firstRun' = [filelist |-> filelist, ncalls |-> Len(calls)]
  /\ LET v == PyEval(invFile[1])
         fi == Unpack(v)
         m == [Cur EXCEPT !.err = "", !.idx = <<>>, !.icnt = <<0, 0, 0, 0>>,
                          !.twork = PL(<<>>), !.instts = <<>>,
                          !.invntry = fi.invntry,
                          !.ninst = IF fi.ninst = <<>> THEN 0 ELSE fi.ninst[1],
                          !.nmdls = fi.nmdls, !.nxpts = fi.nxpts, !.nsims = fi.nsims,
                          !.ntabs = fi.ntabs, !.nvars = fi.nvars,
                          !.flist = <<>>, !.found_files = <<>>, !.filelist = <<>>,
                          !.searchLog = "none", !.ifound = 0, !.ldirs = <<>>,
                          !.vertrg = "", !.models = <<>>, !.ensembles = <<>>,
                          !.versions = <<>>, !.variables = <<>>, !.dli = 0]
     IN  Set(IF v.t = "e" THEN Crash(m, v.s) ELSE LoopRun(EnterSearch(m, script), script))
  /\ nfault' = MaxFaults
  /\ UNCHANGED <<script, pertPath, pertList, trgexpt, trgvar, trgdata,
                 OverwriteExistingFile, calls, lastCall, disk, gets, xfers>>

vars == <<script, pertPath, pertList, trgexpt, trgvar, trgdata, OverwriteExistingFile,
          use_existing_inventory_file, firstRun,
          stage, err, idx, icnt, icntEnd, twork, instts, invntry, ninst,
          nmdls, nxpts, nsims, ntabs, nvars, invFile, invReturned,
          calls, lastCall, nfault,
          flist, found_files, filelist, searchLog, ifound, ldirs, vertrg,
          models, ensembles, versions, variables, dli, localDirs, disk, gets, xfers, rcwd>>

NoCall == [path |-> NoPath, kind |-> "dir", att |-> Nominal.att, parse |-> "ok",
           opens |-> 0, exc |-> "", ret |-> <<>>]

\* the local files that may be there before the run: the first file of
\* every file directory of the base archive, from an earlier run
PreDisk(sc) ==
  {[dest |-> Dest(sc, Append(p, FileNames[1])), content |-> "old"] :
     p \in {q \in BaseDirs(sc, FileDepth(sc) - 1) : Len(q) = FileDepth(sc) - 1}}

\* the user settings and the local file system of a run.  The ftp script
\* has no overwrite setting.  Each setting is varied around the run that
\* asks for refC1 and one variable with an empty download directory tree.
Settings(sc) ==
  LET tv == IF sc = "ccmi1" THEN <<"zmcly">> ELSE <<>>
      td == IF sc = "ccmi1" THEN <<>> ELSE <<"h2o_AmonZ">>
      alldirs == {"refC1", "refC2"}
      S(te, d, ow, dk, dr) ==
        [trgexpt |-> te, trgvar |-> tv, trgdata |-> d,
         overwrite |-> ow, disk |-> dk, dirs |-> dr]
  IN  {S(te, td, FALSE, {}, alldirs) : te \in {<<>>, <<"refC1">>, <<"refC1", "refC2">>}}
      \cup {S(<<"refC1">>, td, FALSE, {}, {}), S(<<"refC1">>, td, FALSE, PreDisk(sc), alldirs)}
      \cup (IF sc = "ftp" THEN {} ELSE {S(<<"refC1">>, td, TRUE, PreDisk(sc), alldirs)})
      \cup (IF sc = "ccmi1" THEN {}
            ELSE {S(<<"refC1">>, <<"h2o_AmonZ", "toz_Amon">>, FALSE, {}, alldirs)})

Init ==
  /\ script \in Scripts
  /\ \E pl \in Perturbations(script) : pertPath = pl[1] /\ pertList = pl[2]
  /\ nfault = IF pertPath # NoPath THEN MaxFaults ELSE 0
  /\ \E u \in Settings(script) :
       /\ trgexpt = u.trgexpt /\ trgvar = u.trgvar /\ trgdata = u.trgdata
       /\ OverwriteExistingFile = u.overwrite /\ disk = u.disk /\ localDirs = u.dirs
  /\ use_existing_inventory_file = FALSE /\ firstRun = [filelist |-> <<>>, ncalls |-> 0]
  /\ stage = "root" /\ err = "" /\ idx = <<>> /\ icnt = <<0, 0, 0, 0>>
  /\ icntEnd = [st \in LoopStages |-> <<>>]
  /\ twork = PL(<<>>) /\ instts = <<>> /\ invntry = PL(<<>>) /\ ninst = 0
  /\ nmdls = <<>> /\ nxpts = <<>> /\ nsims = <<>> /\ ntabs = <<>> /\ nvars = <<>>
  /\ invFile = <<>> /\ invReturned = FALSE
  /\ calls = <<>> /\ lastCall = NoCall
  /\ flist = <<>> /\ found_files = <<>> /\ filelist = <<>> /\ searchLog = "none"
  /\ ifound = 0 /\ ldirs = <<>> /\ vertrg = "" /\ models = <<>> /\ ensembles = <<>>
  /\ versions = <<>> /\ variables = <<>> /\ dli = 0 /\ rcwd = <<>>
  /\ gets = <<>> /\ xfers = <<>>

Next ==
  \/ InvRoot \/ InvModels \/ InvExpts \/ InvSims \/ InvTabs \/ InvVars
  \/ SearchVisit \/ SearchGrid \/ SearchVers \/ SearchFiles
  \/ Download
  \/ C1Root \/ C1Models \/ C1Freq \/ C1Realm \/ C1Ens \/ C1Vers \/ C1Vars \/ C1Files
  \/ FtpVisit \/ FtpGrid \/ FtpVers \/ FtpFiles \/ FtpRetr
  \/ Rerun

Spec == Init /\ [][Next]_vars


(***************************************************************************)
(* What the properties below read: the archive of the run as a set of file *)
(* paths, the filter applied to a path, the result of the search.          *)
(***************************************************************************)
\* the directory paths of the archive of this run of depth at most d
RECURSIVE ArchDirs(_)
ArchDirs(d) ==
  IF d = 0 THEN {<<>>}
  ELSE LET prev == ArchDirs(d - 1)
       IN  prev \cup UNION {{Append(q, n) : n \in SeqToSet(SelectNames(Ls(q), TRUE))} :
                               q \in {r \in prev : Len(r) = d - 1}}

\* the files of the archive of this run that lie at file depth
ArchFiles ==
  UNION {{Append(q, n) : n \in SeqToSet(SelectNames(Ls(q), FALSE))} :
           q \in {r \in ArchDirs(FileDepth(script) - 1) : Len(r) = FileDepth(script) - 1}}

\* path p (of a directory or a file) satisfies the filter of the running
\* script at every constrained level it reaches
ChainOK(p) ==
  IF script = "ccmi1"
  THEN /\ Len(p) >= 3 => InSeq(p[3], trgexpt)
       /\ Len(p) >= 4 => p[4] = trgfreq
       /\ Len(p) >= 5 => p[5] = trgrealm
       /\ Len(p) >= 6 => p[6] = trgfreqname
       /\ Len(p) >= 9 => InSeq(p[9], trgvar)
  ELSE /\ Len(p) >= 3 => InSeq(p[3], trgexpt)
       /\ Len(p) >= 5 => InSeq(p[5], trgtble)
       /\ Len(p) >= 6 => InSeq(p[6], trgxvar)

\* the version directory of file f is the numerically greatest of the
\* version directories beside it (the 8th level in both archives)
IsLatest(f) ==
  \A v \in SeqToSet(SelectNames(Ls(SubSeq(f, 1, 7)), TRUE)) :
     IntOfSuffix(v) <= IntOfSuffix(f[8])

\* the file paths the search has returned so far: found_files of
\* search_inventory_ccmi1, the file lists of flist of search_inventory
ResultFiles == SeqToSet(found_files) \cup SeqToSet(Flatten(flist))

\* the run is over
Terminated == stage \in {"done", "crashed"}

\* the last listing call made no successful open attempt
LastFailed ==
  /\ lastCall.path # NoPath
  /\ \A i \in 1..lastCall.opens : lastCall.att[i] # "ok"

(***************************************************************************)
(* Properties                                                              *)
(***************************************************************************)
\* C1 (search soundness): every file path the search of the CCMI-1 or the
\* CCMI-2022 script returns is a file of the archive whose directory chain
\* satisfies the filter at every constrained level: experiment in trgexpt,
\* variable among the requested ones, and frequency domain, realm and
\* frequency name as set (CCMI-1) or table among the requested ones (2022).
C1_SearchSound ==
  \A f \in ResultFiles :
     /\ Len(f) = FileDepth(script)
     /\ Exists(Front(f))
     /\ ChainOK(f)

\* a finished search that returned files from an archive that also holds
\* files of an experiment that was not asked for
C1_Witness ==
  /\ stage = "done" /\ script = "ccmi2022"
  /\ trgexpt = <<"refC1">>
  /\ ResultFiles # {}
  /\ \E f \in ArchFiles : f[3] = "refC2" /\ InSeq(f[5], trgtble) /\ InSeq(f[6], trgxvar)

\* C2 (search completeness): when the run of an XML script is over and no
\* listing call of it went wrong, every file of the archive whose chain
\* satisfies the filter and whose version directory is the selected
\* (numerically greatest) one is in the search result.
C2_SearchComplete ==
  (/\ Terminated /\ script # "ftp"
   /\ \A i \in 1..Len(calls) : ~calls[i].fault)
  => \A f \in ArchFiles : (ChainOK(f) /\ IsLatest(f)) => f \in ResultFiles

\* C3 (pruning): no listing call of a search is issued for a path with a
\* component outside the accepted set at a constrained level, and the
\* searches that walk the inventory (CCMI-2022, ftp) list only at or
\* beneath variable directories.
C3_Pruning ==
  \A i \in 1..Len(calls) :
     calls[i].phase = "search" =>
       /\ ChainOK(calls[i].path)
       /\ script # "ccmi1" => Len(calls[i].path) >= 6

\* a finished CCMI-1 search that listed files, in an archive that holds an
\* experiment directory outside the filter
C3_Witness ==
  /\ stage = "done" /\ script = "ccmi1"
  /\ trgexpt = <<"refC1">>
  /\ Exists(<<"InstA", "ModelA", "refC2">>)
  /\ \E i \in 1..Len(calls) : calls[i].phase = "search" /\ calls[i].kind = "file"

\* C4 (version selection): every file in the search result, and every file
\* a transfer was requested for, lies in the version directory whose
\* number is the greatest of its branch.
C4_LatestVersion ==
  \A f \in ResultFiles \cup SeqToSet(gets) : IsLatest(f)

\* C5 (retry cap and exhaustion): a listing call of an XML script opens
\* the URL at most NTRY times, never again after a success, and when all
\* NTRY attempts fail it returns an empty sequence and raises nothing.
C5_RetryCap ==
  (lastCall.path # NoPath /\ script # "ftp") =>
     /\ lastCall.opens <= NTRY
     /\ \A i \in 1..(lastCall.opens - 1) : lastCall.att[i] # "ok"
     /\ (\A i \in 1..NTRY : lastCall.att[i] # "ok") =>
          (lastCall.exc = "" /\ lastCall.ret = <<>>)

\* C6 (branch-scoped listing failure): after the listing of a node other
\* than the root has failed, the node has no children and the run goes on.
C6_BranchScoped ==
  (LastFailed /\ lastCall.path # <<>>) =>
     (lastCall.exc = "" /\ lastCall.ret = <<>> /\ stage # "crashed")

\* C7 (fatal root failure): when the listing of the top-level catalog
\* the inventory build starts with has failed on all its attempts, no
\* inventory file is written and no inventory is returned.
C7_RootFatal ==
  (/\ Len(calls) >= 1
   /\ calls[1].phase = "build" /\ calls[1].path = <<>> /\ calls[1].failed)
  => (invFile = <<>> /\ ~invReturned)

\* C8 (an empty branch is no error): after a listing below the root that
\* succeeded and returned no children the run has not raised.
C8_EmptyBranch ==
  (/\ lastCall.path \notin {NoPath, <<>>}
   /\ lastCall.att[lastCall.opens] = "ok" /\ lastCall.parse = "ok"
   /\ lastCall.exc = "" /\ lastCall.ret = <<>>)
  => stage # "crashed"

\* C9 (empty-experiment run): with trgexpt empty no file-level listing and
\* no transfer request is issued, the download list is empty, and a run in
\* which nothing is out of the ordinary ends normally with the inventory
\* written.
C9_EmptyExperiment ==
  trgexpt = <<>> =>
    /\ \A i \in 1..Len(calls) : calls[i].kind # "file"
    /\ gets = <<>> /\ filelist = <<>>
    /\ (Terminated /\ nfault = 0) => (stage = "done" /\ invFile # <<>>)

\* C10 (idempotent download skip): a step for a file of the download list
\* whose destination exists, while no overwriting is asked for, issues no
\* transfer request and leaves the local files as they are.
C10_SkipExisting ==
  [][(/\ stage \in {"download", "f_retr"}
      /\ ~OverwriteExistingFile
      /\ OnDisk(Dest(script, filelist[dli])))
     => (gets' = gets /\ disk' = disk)]_vars

\* C11 (file-scoped download failure): a transfer that failed is reported,
\* it does not end the run, and when the download loop of an XML script is
\* over every file of the download list was requested or was skipped
\* because its destination exists.
C11_FileScopedFailure ==
  /\ \A i \in 1..Len(xfers) :
       xfers[i].res # "ok" => (xfers[i].reported /\ stage # "crashed")
  /\ (stage = "done" /\ script # "ftp") =>
       \A i \in 1..Len(filelist) :
          InSeq(filelist[i], gets) \/ OnDisk(Dest(script, filelist[i]))

\* the named nodes below node n of the inventory, as the build stages and
\* the search address them: the elements n[1], n[2], ... that are lists
\* starting with a name
ChildNodes(n) ==
  SelectSeq(Tail(n.l), LAMBDA e : e.t = "l" /\ e.l # <<>> /\ Head(e.l).t = "s")

\* all nodes of the sequence ns followed by their children, level by level
RECURSIVE ChildrenOfAll(_)
ChildrenOfAll(ns) ==
  IF ns = <<>> THEN <<>> ELSE ChildNodes(Head(ns)) \o ChildrenOfAll(Tail(ns))

\* the nodes the inventory inv holds at level k (1 = institutions)
RECURSIVE LevelNodes(_, _)
LevelNodes(inv, k) ==
  IF k = 1 THEN inv.l ELSE ChildrenOfAll(LevelNodes(inv, k - 1))

\* the number of variables the inventory holds: the strings of the list
\* table[1] (ccmi2022) or the child nodes of the tables (ftp)
RECURSIVE VarCount(_)
VarCount(tabs) ==
  IF tabs = <<>> THEN 0
  ELSE (IF script = "ftp" THEN Len(ChildNodes(Head(tabs)))
        ELSE IF Len(Head(tabs).l) >= 2 /\ Head(tabs).l[2].t = "l"
             THEN Len(Head(tabs).l[2].l) ELSE 0)
       + VarCount(Tail(tabs))

\* the numbers of children the listing calls of the build returned for the
\* directories of depth d, in the order of the calls
RECURSIVE Returned(_, _)
Returned(cs, d) ==
  IF cs = <<>> THEN <<>>
  ELSE (IF Head(cs).phase = "build" /\ Len(Head(cs).path) = d
        THEN <<Head(cs).nret>> ELSE <<>>) \o Returned(Tail(cs), d)

\* the inventory build of this run is complete
BuildDone ==
  \/ invFile # <<>>
  \/ script = "ftp" /\ stage \in {"ftp_dl", "f_grid", "f_vers", "f_files", "f_retr"}

\* C12 (per-level counts): after a completed inventory build the count
\* arrays hold, parent by parent, the number of children each listing
\* returned, and the number of nodes the inventory holds at every level is
\* the sum of the count array of that level.
C12_LevelCounts ==
  BuildDone =>
    /\ <<ninst>> = Returned(calls, 0)
    /\ nmdls = Returned(calls, 1) /\ nxpts = Returned(calls, 2)
    /\ Len(LevelNodes(invntry, 1)) = ninst
    /\ Len(LevelNodes(invntry, 2)) = SumSeq(nmdls)
    /\ Len(LevelNodes(invntry, 3)) = SumSeq(nxpts)
    /\ script # "ccmi1" =>
         /\ nsims = Returned(calls, 3) /\ ntabs = Returned(calls, 4)
         /\ nvars = Returned(calls, 5)
         /\ Len(LevelNodes(invntry, 4)) = SumSeq(nsims)
         /\ Len(LevelNodes(invntry, 5)) = SumSeq(ntabs)
         /\ VarCount(LevelNodes(invntry, 5)) = SumSeq(nvars)

\* the paths of the search-phase listing calls among cs, in call order
RECURSIVE SearchPaths(_)
SearchPaths(cs) ==
  IF cs = <<>> THEN <<>>
  ELSE (IF Head(cs).phase = "search" THEN <<Head(cs).path>> ELSE <<>>)
       \o SearchPaths(Tail(cs))

\* no listing call of this behaviour met a transport or parse fault
NoListingFault == \A i \in 1..Len(calls) : ~calls[i].fault

\* C13: at the end of a run, evaluating the text create_inventory_file
\* wrote gives the structure it returned (the same names in the same
\* order, the same count lists), and a run that reads the file makes the
\* same search listing calls and finds the same files as the run that
\* built it.
C13_RoundTrip ==
  /\ (script # "ftp" /\ invFile # <<>> /\ Terminated) =>
        Unpack(PyEval(invFile[1])) = FullInventory(Cur, script)
  /\ (use_existing_inventory_file /\ stage = "done" /\ NoListingFault) =>
        /\ filelist = firstRun.filelist
        /\ SearchPaths(SubSeq(calls, firstRun.ncalls + 1, Len(calls)))
             = SearchPaths(SubSeq(calls, 1, firstRun.ncalls))

\* a CCMI-2022 run that read the inventory file has found files
C13_Witness ==
  /\ script = "ccmi2022" /\ use_existing_inventory_file /\ stage = "done"
  /\ filelist # <<>> /\ NoListingFault

\* depth of the deepest directories whose listing the inventory file
\* holds: models (their experiments) in the CCMI-1 inventory, tables (their
\* variables) in the CCMI-2022 inventory
InventoryDepth(sc) == IF sc = "ccmi1" THEN 2 ELSE 5

\* the listing calls of the run that read the inventory file
RerunCalls == SubSeq(calls, firstRun.ncalls + 1, Len(calls))

\* C14: a run with use_existing_inventory_file lists no directory whose
\* children the inventory file records (the root, an institution, a model
\* and, for CCMI-2022, an experiment, a simulation, a table); every
\* directory it lists lies beneath directories the filter matches.
C14_NoRetraversal ==
  use_existing_inventory_file =>
    \A i \in 1..Len(RerunCalls) :
       /\ Len(RerunCalls[i].path) > InventoryDepth(script)
       /\ ChainOK(RerunCalls[i].path)

\* the string <variable>_<table> of variable directory p is an entry of trgdata
PairRequested(p) ==
  \E ih \in 1..Len(trgdata) : SplitUnderscore[trgdata[ih]] = <<p[6], p[5]>>

\* the variable directories the search has selected so far: those it has
\* listed to find the files
SelectedDirs ==
  {calls[i].path : i \in {j \in 1..Len(calls) :
                            calls[j].phase = "search" /\ Len(calls[j].path) = 6}}

\* C15: the CCMI-2022 and ftp scripts select a variable directory only if
\* its experiment is in trgexpt and <variable>_<table> is an entry of
\* trgdata; a run that goes through without a listing fault selects
\* exactly those directories of the archive, whichever script runs.
C15_PairFilter ==
  script # "ccmi1" =>
    /\ \A p \in SelectedDirs : InSeq(p[3], trgexpt) /\ PairRequested(p)
    /\ (stage = "done" /\ NoListingFault) =>
          SelectedDirs = {p \in ArchDirs(6) :
                            Len(p) = 6 /\ InSeq(p[3], trgexpt) /\ PairRequested(p)}

\* the file paths the file listings among cs returned, in the order of the
\* calls and, within one call, of the listing
RECURSIVE Discovered(_)
Discovered(cs) ==
  IF cs = <<>> THEN <<>>
  ELSE (IF Head(cs).phase = "search" /\ Head(cs).kind = "file"
        THEN Head(cs).ret ELSE <<>>)
       \o Discovered(Tail(cs))

\* the listing calls of the run in progress
ThisRunCalls == IF use_existing_inventory_file THEN RerunCalls ELSE calls

\* C16: the download list the search of an XML script hands over is the
\* sequence of the files its listings returned, in discovery order: every
\* file once, the files of an earlier directory before those of a later
\* one, the files of one directory in listing order.
C16_DiscoveryOrder ==
  (script # "ftp" /\ stage \in {"download", "done"}) =>
     filelist = Discovered(ThisRunCalls)

\* C17: a version listing with a name that is not one prefix character
\* and digits does not end the run with the ValueError of int(); and when
\* the listing holds exactly one version, that version is the one taken,
\* whatever its name.
C17_VersionNames ==
  /\ err # "ValueError"
  /\ (stage \in {"s_files", "f_files"} /\ Len(versions) = 1) => vertrg = versions[1]
  /\ (stage = "c1_vars" /\ Len(versions) = 1) => C1Path[8] = versions[1]

\* C18: a listing call whose response arrives but cannot be parsed, or in
\* which a matched child lacks the designated attribute, does not raise:
\* get_elements returns (the empty list for an unparseable response) and
\* the run goes on.
C18_MalformedListing ==
  (lastCall.parse # "ok" /\ ~LastFailed) =>
     /\ lastCall.exc = ""
     /\ lastCall.parse = "ParseError" => lastCall.ret = <<>>
     /\ stage # "crashed"

\* C19: every file of the download list of an XML script has a basename
\* with a fourth underscore-separated field, that field is the experiment
\* directory the file was found under, and a file the run has fetched and
\* stored lies at downloaddir/<that field>/<basename>.
C19_Destination ==
  script # "ftp" =>
    /\ \A i \in 1..Len(filelist) :
         /\ Len(Basename(script, filelist[i])) >= 4
         /\ Basename(script, filelist[i])[4] = filelist[i][3]
    /\ \A i \in 1..Len(xfers) :
         (xfers[i].res = "ok" /\ xfers[i].file[3] \in localDirs) =>
            OnDisk([dir |-> xfers[i].file[3], base |-> Basename(script, xfers[i].file)])

\* the name of a node of the inventory
NodeName(n) == Head(n.l).s

\* the node of the inventory reached from the nodes ns by the names of
\* path; PyErr when a name is missing
RECURSIVE NodeAt(_, _)
NodeAt(ns, path) ==
  LET hit == SelectSeq(ns, LAMBDA e : NodeName(e) = Head(path))
  IN  IF hit = <<>> THEN PyErr
      ELSE IF Len(path) = 1 THEN Head(hit)
      ELSE NodeAt(ChildNodes(Head(hit)), Tail(path))

\* everything stored below the name of node n is a named node (or the
\* empty list left where a listing returned nothing)
Homogeneous(n) ==
  \A i \in 2..Len(n.l) :
     n.l[i].t = "l" /\ (n.l[i].l # <<>> => Head(n.l[i].l).t = "s")

\* some institution of the archive listed two or more models
TwoModels ==
  \E i \in 1..Len(calls) :
     calls[i].phase = "build" /\ Len(calls[i].path) = 1 /\ calls[i].nret >= 2

\* C20: in a finished inventory the children stored for every institution
\* and every model are nodes of one kind and are the children its listing
\* returned, in listing order; and with two or more models in an
\* institution no stage ends with an IndexError.
C20_ChildAttribution ==
  /\ BuildDone =>
       \A i \in 1..Len(calls) :
          (calls[i].phase = "build" /\ Len(calls[i].path) \in {1, 2} /\ calls[i].nret >= 0) =>
             LET n == NodeAt(invntry.l, calls[i].path)
             IN  /\ n # PyErr
                 /\ Homogeneous(n)
                 /\ [k \in 1..Len(ChildNodes(n)) |-> NodeName(ChildNodes(n)[k])] = calls[i].ret
  /\ TwoModels => ~(stage = "crashed" /\ err = "IndexError")

\* the paths of the listing calls of the inventory build, in call order
RECURSIVE BuildPaths(_)
BuildPaths(cs) ==
  IF cs = <<>> THEN <<>>
  ELSE (IF Head(cs).phase = "build" THEN <<Head(cs).path>> ELSE <<>>)
       \o BuildPaths(Tail(cs))

\* the nodes the build has discovered: the root and every name a build
\* listing returned for a directory above the last level of the inventory
DiscoveredNodes ==
  {<<>>} \cup
  UNION {{Append(calls[i].path, calls[i].ret[k]) : k \in 1..Len(calls[i].ret)} :
           i \in {j \in 1..Len(calls) :
                    calls[j].phase = "build" /\ Len(calls[j].path) < InventoryDepth(script)}}

\* C21: when the inventory build is complete, its listing calls name each
\* discovered node of a non-final level exactly once, by the path of its
\* own ancestors, and nothing else.
C21_OneListingPerNode ==
  BuildDone =>
    LET bp == BuildPaths(calls)
    IN  /\ \A i, j \in 1..Len(bp) : bp[i] = bp[j] => i = j
        /\ SeqToSet(bp) = DiscoveredNodes

\* a CCMI-2022 build that went through the six levels of the base archive
C21_Witness ==
  /\ script = "ccmi2022" /\ BuildDone /\ stage = "done"
  /\ Cardinality(DiscoveredNodes) >= 17


\* C22 (retry covers every transport failure): in a listing call of an XML
\* script, an open attempt numbered 1 to NTRY - 1 that fails, whatever the
\* error, is followed by another attempt, and a call without a successful
\* attempt returns its empty result only after NTRY attempts.
C22_RetryEveryFailure ==
  (lastCall.path # NoPath /\ script # "ftp") =>
     /\ \A i \in 1..(NTRY - 1) :
          (i <= lastCall.opens /\ lastCall.att[i] # "ok") => lastCall.opens > i
     /\ (LastFailed /\ lastCall.exc = "") => lastCall.opens = NTRY


\* C23 (the selected version exists): the version directory whose files
\* search_inventory is about to list is one of the names the version
\* listing of that branch returned.
C23_SelectedVersionListed ==
  /\ (stage \in {"s_files", "f_files"}) => InSeq(vertrg, versions)
  /\ (stage = "c1_vars") => InSeq(C1Path[8], versions)


\* C24 (a failed download leaves nothing to skip): a transfer of the
\* download loop that fails, by a network error or a non-success HTTP
\* status, leaves no file at its destination unless one was there before
\* the attempt, so that the existence test of a later run with
\* OverwriteExistingFile off does not skip the file.
C24_FailedLeavesNothing ==
  [][(/\ script # "ftp"
      /\ Len(xfers') = Len(xfers) + 1
      /\ Last(xfers').res # "ok")
       => LET dst == Dest(script, Last(xfers').file)
          IN  (\E e \in disk' : e.dest = dst) => (\E e \in disk : e.dest = dst)]_vars


\* the stages in which the loops of a traversal of the inventory are open
VisitStages ==
  {"expts", "sims", "tabs", "vars", "search", "s_grid", "s_vers", "s_files",
   "ftp_dl", "f_grid", "f_vers", "f_files", "f_retr"}

\* the count array of level k: the models of the institutions, the
\* experiments of the models, the runs, the MIP tables, the variables
CountArr(k) ==
  CASE k = 1 -> nmdls [] k = 2 -> nxpts [] k = 3 -> nsims [] k = 4 -> ntabs
    [] OTHER -> nvars

\* a[0] + ... + a[n-1]
SumTo(a, n) == SumSeq(SubSeq(a, 1, IF n < Len(a) THEN n ELSE Len(a)))

\* the position, among all nodes of level k + 1 in traversal order, of the
\* node the open loops are at (k = 1: the model, 2: the experiment, 3: the
\* run, 4: the MIP table), counted from 0
RECURSIVE NodeOrd(_)
NodeOrd(k) ==
  IF k = 1
  THEN SumTo(nmdls, idx[1]) + (IF stage = "expts" THEN idx[2] ELSE idx[2] - 1)
  ELSE SumTo(CountArr(k), NodeOrd(k - 1)) + idx[k + 1] - 1

\* the count entry the loop test at depth d reads; -1 when it is past the
\* end of the array
CountRead(d) ==
  IF d = 2 THEN CountAt(nmdls, idx[1]) ELSE CountAt(CountArr(d), icnt[d - 2])

\* C25 (counter alignment): while the loops of a build stage or of the
\* search traversal are open, every running counter in use is the position
\* of the node being visited and lies within the count array it indexes; no
\* loop test reads a count array past its end; and when the loops of a
\* stage have ended, each counter the stage uses equals the sum of the
\* counts of its level.
C25_CounterAlignment ==
  /\ (stage \in VisitStages /\ Len(idx) >= 2) =>
        \A k \in 1..(IF Len(idx) > 4 THEN 4 ELSE Len(idx) - 1) :
           /\ icnt[k] = NodeOrd(k)
           /\ icnt[k] < Len(CountArr(k + 1))
  /\ ~(err = "IndexError" /\ Len(idx) \in 2..6 /\ CountRead(Len(idx)) = -1)
  /\ \A st \in LoopStages \ {"models"} :
        icntEnd[st] # <<>> =>
           \A k \in 1..(IF NLoops(st) > 4 THEN 4 ELSE NLoops(st) - 1) :
              icntEnd[st][k] = SumSeq(CountArr(k))


\* a CCMI-2022 run whose search traversal went through the six MIP tables
\* of the base archive and found files
C25_Witness ==
  /\ script = "ccmi2022" /\ stage = "done" /\ gets # <<>>
  /\ icntEnd["search"] # <<>> /\ icntEnd["search"][4] >= 6
  /\ icntEnd["vars"] = icntEnd["search"]

====
